---- MODULE Spec2Model ----
(***************************************************************************)
(* Favorites list manager with TTL-caching country resolver.               *)
(*   country/models/favorites_model.py  FavoritesModel                     *)
(*   country/utils/api_utils.py         get_country_with_cache and below   *)
(*   country/models/country_model.py    CountryData (the catalog store)    *)
(* Every ValueError of the code is named after the raise site that throws  *)
(* it: EmptyList, NotFound, AlreadyExists, InvalidPosition, NotInList.     *)
(***************************************************************************)
EXTENDS Integers, Sequences, FiniteSets, TLC

\* ---------------------------------------------------------------- bounds
MaxTime == 2            \* the clock runs over 0..MaxTime
MaxTTL == 2             \* ttl_seconds is drawn from 0..MaxTTL
MaxPos == 4             \* list numbers offered to the operations: -1..MaxPos
MaxStore == 2           \* rows the catalog table may hold
MaxFavorites == 4       \* entries the list may hold when requests overlap

\* ---------------------------------------------------------------- data
\* Country names a caller may use. The provider may answer the query "USA"
\* with the record whose common name is "United States".
Names == {"Canada", "USA", "United States"}

CommonName(n) == IF n = "USA" THEN "United States" ELSE n

\* The fields of the records used as inputs: Canada, and the United States
\* under either of its names.
PopulationOf(n) == IF n = "Canada" THEN 38000000 ELSE 331000000

LanguagesOf(n) == IF n = "Canada" THEN {"English", "French"} ELSE {"English"}

CurrenciesOf(n) == IF n = "Canada" THEN {"CAD"} ELSE {"USD"}

RegionOf(n) == "Americas"

\* The flag URL; a record built by normalize_country from an answer without
\* flags carries the empty string.
FlagOf(n) ==
    IF n = "Canada" THEN "https://example.com/flag_canada.png"
    ELSE IF n = "United States" THEN "https://example.com/flag_usa.png"
    ELSE ""

\* A CountryData row, reduced to the fields the favorites list reads.
Rec(n) == [name |-> n, population |-> PopulationOf(n),
           languages |-> LanguagesOf(n), currencies |-> CurrenciesOf(n),
           region |-> RegionOf(n), flag_url |-> FlagOf(n)]

\* Python's None for "no CountryData".
NoRec == [name |-> "", population |-> 0, languages |-> {}, currencies |-> {},
          region |-> "", flag_url |-> ""]

Positions == (0 - 1)..MaxPos

NoCalls == << >>

\* ---------------------------------------------------------------- state
VARIABLES
    favorites,              \* FavoritesModel.favorites: list of names
    favorite_country_int,   \* FavoritesModel.favorite_country_int: the pointer
    country_cache,          \* FavoritesModel._country_cache: dict name -> record
    ttl,                    \* FavoritesModel._ttl: dict name -> expiry time
    ttl_seconds,            \* FavoritesModel.ttl_seconds
    store,                  \* rows of the CountryData table, in insertion order
    now,                    \* time.time()
    hist,                   \* per name: time of the last successful resolution
                            \* and of the last cache refresh (-1: never)
    ret,                    \* the last call: operation, arguments, outcome,
                            \* and the tiers it touched
    requests                \* per request thread of the server: the call it is
                            \* in and the statement it has reached

vars == << favorites, favorite_country_int, country_cache, ttl, ttl_seconds,
           store, now, hist, ret, requests >>

\* ---------------------------------------------------------------- lists
\* Python: name in list
InList(name, s) == \E i \in 1..Len(s) : s[i] = name

\* Python: list.index(name) + 1 (first occurrence)
FirstIndex(s, name) ==
    CHOOSE i \in 1..Len(s) : s[i] = name /\ \A j \in 1..(i - 1) : s[j] # name

\* Python: del list[i - 1]
DelAt(s, i) == SubSeq(s, 1, i - 1) \o SubSeq(s, i + 1, Len(s))

\* list.pop() in place of list.remove(name): the last entry goes
ListRemove_last(s, name) == SubSeq(s, 1, Len(s) - 1)

\* Python: list.remove(name), for a name that is in the list
ListRemove(s, name) == DelAt(s, FirstIndex(s, name))

\* Python: list.insert(index, name); index is 0-based, negative indexes count
\* from the end, and the index is clamped to 0..len.
ListInsert(s, index, name) ==
    LET i0 == IF index < 0 THEN Len(s) + index ELSE index
        i1 == IF i0 < 0 THEN 0 ELSE IF i0 > Len(s) THEN Len(s) ELSE i0
    IN  SubSeq(s, 1, i1) \o << name >> \o SubSeq(s, i1 + 1, Len(s))

\* Python: list[index] for index in -len..len-1
ListItem(s, index) == IF index >= 0 THEN s[index + 1] ELSE s[Len(s) + index + 1]

\* Python: int(bool)
BoolToInt(b) == IF b THEN 1 ELSE 0

NoDuplicates(s) == \A i, j \in 1..Len(s) : i # j => s[i] # s[j]

\* ---------------------------------------------------------------- resolver
\* CountryData.query.filter_by(name=name).first()
find_by_name(st, name) ==
    IF \E i \in 1..Len(st) : st[i].name = name
    THEN st[FirstIndex([i \in 1..Len(st) |-> st[i].name], name)]
    ELSE NoRec

\* What the outside world answers during one resolution: the provider
\* (absent: not found or network failure; exact: a record named as asked;
\* common: a record under the common name) and whether the commit of the
\* write-back goes through.
EnvInputs == [answer : {"absent", "exact", "common"}, commit : BOOLEAN]

\* fetch_country_by_name under the answer e
fetch_country_by_name(name, e) ==
    IF e.answer = "absent" THEN NoRec
    ELSE IF e.answer = "exact" THEN Rec(name)
    ELSE Rec(CommonName(name))

\* One entry of ret.calls: the tier touched, the name asked for, the answer.
Call(tier, name, answer) == << tier, name, answer >>

\* The provider asked before the store
get_or_fetch_country_provider_first(name, st, e) ==
    LET country == find_by_name(st, name)
        fetched == fetch_country_by_name(name, e)
    IN
    IF fetched # NoRec
    THEN [country |-> fetched, store |-> Append(st, fetched),
          calls |-> << Call("provider", name, fetched.name),
                       Call("insert", name, "ok") >>]
    ELSE IF country # NoRec
    THEN [country |-> country, store |-> st,
          calls |-> << Call("provider", name, "absent"),
                       Call("store", name, "found") >>]
    ELSE [country |-> NoRec, store |-> st,
          calls |-> << Call("provider", name, "absent"),
                       Call("store", name, "absent") >>]

\* get_or_fetch_country against the table st under the answers e: the store
\* by exact name, then the provider with the write-back of its record.
get_or_fetch_country(name, st, e) ==
    LET country == find_by_name(st, name)
        fetched == fetch_country_by_name(name, e)
    IN
    IF country # NoRec
    THEN [country |-> country, store |-> st,
          calls |-> << Call("store", name, "found") >>]
    ELSE IF fetched # NoRec
    THEN IF e.commit
         THEN [country |-> fetched, store |-> Append(st, fetched),
               calls |-> << Call("store", name, "absent"),
                            Call("provider", name, fetched.name),
                            Call("insert", name, "ok") >>]
         ELSE [country |-> NoRec, store |-> st,
               calls |-> << Call("store", name, "absent"),
                            Call("provider", name, fetched.name),
                            Call("insert", name, "rollback") >>]
    ELSE [country |-> NoRec, store |-> st,
          calls |-> << Call("store", name, "absent"),
                       Call("provider", name, "absent") >>]

\* The freshness test with >= in place of >
CacheFresh_inclusive(name, c, t, nw) ==
    /\ name \in DOMAIN c
    /\ (IF name \in DOMAIN t THEN t[name] ELSE 0) >= nw

\* The test of the cache without the test of the expiry
CacheFresh_ignoring_expiry(name, c, t, nw) == name \in DOMAIN c

\* name in cache and ttl.get(name, 0) > now
CacheFresh(name, c, t, nw) ==
    /\ name \in DOMAIN c
    /\ (IF name \in DOMAIN t THEN t[name] ELSE 0) > nw

\* Python: {}
EmptyDict == [x \in {} |-> 0]

\* The dict rebound to a one-entry dict instead of updated
DictSet_rebound(d, k, v) == [x \in {k} |-> v]

\* Python: dict[key] = value
DictSet(d, k, v) == [x \in DOMAIN d \cup {k} |-> IF x = k THEN v ELSE d[x]]

\* The expiry written as a duration, without the clock reading
Expiry_without_now(nw, secs) == secs

\* The expiry written with a refreshed entry: now + ttl_seconds
Expiry(nw, secs) == nw + secs

\* The part of the state a resolution reads and writes.
Mem == [cache |-> country_cache, ttl |-> ttl, store |-> store, hist |-> hist,
        calls |-> NoCalls]

\* The cache written before the test of the lookup's result: the failure is
\* cached as well
not_found_memory_cached(name, m, secs, nw, g) ==
    [m EXCEPT !.cache = DictSet(m.cache, name, NoRec),
              !.ttl = DictSet(m.ttl, name, Expiry(nw, secs)),
              !.calls = @ \o g.calls]

\* Python: dict.pop(key, None)
DictDel(d, k) == [x \in DOMAIN d \ {k} |-> d[x]]

\* The entry of the name dropped when the lookup fails
not_found_memory_evicting(name, m, secs, nw, g) ==
    [m EXCEPT !.cache = DictDel(m.cache, name),
              !.ttl = DictDel(m.ttl, name),
              !.calls = @ \o g.calls]

\* The memory get_country_with_cache leaves when get_or_fetch_country
\* returned None: it raises before the two cache writes.
not_found_memory(name, m, secs, nw, g) == [m EXCEPT !.calls = @ \o g.calls]

\* A hit that pushes the expiry of the entry forward
hit_memory_sliding(name, m, secs, nw) ==
    [m EXCEPT !.calls = Append(@, Call("cache", name, "hit")),
              !.hist[name].ok = nw,
              !.ttl = DictSet(m.ttl, name, Expiry(nw, secs))]

\* The memory get_country_with_cache leaves on a cache hit: it returns
\* cache[name] and writes nothing.
hit_memory(name, m, secs, nw) ==
    [m EXCEPT !.calls = Append(@, Call("cache", name, "hit")),
              !.hist[name].ok = nw]

\* get_country_with_cache(name, cache, ttl, ttl_seconds) at time nw, started
\* from memory m; ok = FALSE is the ValueError "could not be found".
get_country_with_cache(name, m, secs, nw, e) ==
    IF CacheFresh(name, m.cache, m.ttl, nw)
    THEN [ok |-> TRUE, country |-> m.cache[name],
          mem |-> hit_memory(name, m, secs, nw)]
    ELSE LET g == get_or_fetch_country(name, m.store, e) IN
         IF g.country = NoRec
         THEN [ok |-> FALSE, country |-> NoRec,
               mem |-> not_found_memory(name, m, secs, nw, g)]
         ELSE [ok |-> TRUE, country |-> g.country,
               mem |-> [cache |-> DictSet(m.cache, name, g.country),
                        ttl |-> DictSet(m.ttl, name, Expiry(nw, secs)),
                        store |-> g.store,
                        hist |-> [m.hist EXCEPT ![name] = [ok |-> nw, refresh |-> nw]],
                        calls |-> m.calls \o g.calls]]

\* FavoritesModel.get_country
get_country(name, m, e) == get_country_with_cache(name, m, ttl_seconds, now, e)

\* ---------------------------------------------------------------- plumbing
Ret(op, name, name2, pos, err, val, calls) ==
    [op |-> op, name |-> name, name2 |-> name2, pos |-> pos, err |-> err,
     val |-> val, calls |-> calls]

\* No call is in progress.
Idle == Ret("idle", "", "", 0, "none", NoRec, NoCalls)

\* The memory after a call; the catalog table never outgrows MaxStore.
SetMem(m) ==
    /\ Len(m.store) <= MaxStore
    /\ country_cache' = m.cache
    /\ ttl' = m.ttl
    /\ store' = m.store
    /\ hist' = m.hist

MemUnchanged == UNCHANGED << country_cache, ttl, store, hist >>

\* ---------------------------------------------------------------- validation
\* FavoritesModel.check_if_empty: TRUE when it raises
check_if_empty(favs) == Len(favs) = 0

\* The range test with an exclusive upper end
is_valid_country_list_number_exclusive(n, favs) == 1 <= n /\ n < Len(favs)

\* FavoritesModel.is_valid_country_list_number
is_valid_country_list_number(n, favs) == 1 <= n /\ n <= Len(favs)

\* The range test counting list numbers from zero
validate_country_number_in_favorites_from_zero(n, favs) == 0 <= n /\ n <= Len(favs)

\* FavoritesModel.validate_country_number_in_favorites: TRUE when it returns
validate_country_number_in_favorites(n, favs) == 1 <= n /\ n <= Len(favs)

\* validate_name logging the failed resolution without raising
validate_name_unresolved_ok(name, check_in_favorites, favs, m, e) ==
    IF check_in_favorites /\ ~InList(name, favs)
    THEN [ok |-> FALSE, mem |-> m]
    ELSE LET r == get_country(name, m, e) IN [ok |-> TRUE, mem |-> r.mem]

\* FavoritesModel.validate_name: the membership test (only when
\* check_in_favorites), then one resolution whose failure is NotFound.
validate_name(name, check_in_favorites, favs, m, e) ==
    IF check_in_favorites /\ ~InList(name, favs)
    THEN [ok |-> FALSE, mem |-> m]
    ELSE LET r == get_country(name, m, e) IN [ok |-> r.ok, mem |-> r.mem]

\* The threads of the server that serve requests at the same time.
Threads == {1, 2}

\* A thread between two requests.
NoRequest == [pc |-> "idle", op |-> "", name |-> ""]

\* ---------------------------------------------------------------- init
Init ==
    /\ favorites = << >>
    /\ favorite_country_int = 1
    /\ country_cache = EmptyDict
    /\ ttl = EmptyDict
    /\ ttl_seconds \in 0..MaxTTL
    /\ store = << >>
    /\ now = 0
    /\ hist = [n \in Names |-> [ok |-> 0 - 1, refresh |-> 0 - 1]]
    /\ ret = Idle
    /\ requests = [t \in Threads |-> NoRequest]

\* ---------------------------------------------------------------- operations
\* FavoritesModel.get_country called directly: resolve(name)
resolve(name) ==
    \E e \in EnvInputs :
        LET r == get_country(name, Mem, e) IN
        /\ SetMem(r.mem)
        /\ ret' = Ret("resolve", name, "", 0,
                      IF r.ok THEN "none" ELSE "NotFound", r.country, r.mem.calls)
        /\ UNCHANGED << favorites, favorite_country_int, ttl_seconds, now >>

\* add_country_to_favorites without its duplicate test
AlreadyInFavorites_unchecked(name, favs) == FALSE

\* The duplicate test against the last entry only
AlreadyInFavorites_last_only(name, favs) == Len(favs) > 0 /\ favs[Len(favs)] = name

\* The duplicate test of add_country_to_favorites: name in self.favorites
AlreadyInFavorites(name, favs) == InList(name, favs)

\* The validated name inserted at the head of the list
favorites_after_add_at_head(favs, name, ok) ==
    IF ok THEN ListInsert(favs, 0, name) ELSE favs

\* The name appended whatever validate_name found
favorites_after_add_unvalidated(favs, name, ok) == Append(favs, name)

\* The list after add_country_to_favorites: self.favorites.append(name) once
\* validate_name has returned.
favorites_after_add(favs, name, ok) == IF ok THEN Append(favs, name) ELSE favs

\* FavoritesModel.add_country_to_favorites
add_country_to_favorites(name) ==
    \E e \in EnvInputs :
        IF AlreadyInFavorites(name, favorites)
        THEN /\ ret' = Ret("add", name, "", 0, "AlreadyExists", NoRec, NoCalls)
             /\ MemUnchanged
             /\ UNCHANGED << favorites, favorite_country_int, ttl_seconds, now >>
        ELSE LET v == validate_name(name, FALSE, favorites, Mem, e) IN
             /\ SetMem(v.mem)
             /\ favorites' = favorites_after_add(favorites, name, v.ok)
             /\ ret' = Ret("add", name, "", 0,
                           IF v.ok THEN "none" ELSE "NotFound", NoRec, v.mem.calls)
             /\ UNCHANGED << favorite_country_int, ttl_seconds, now >>

\* FavoritesModel.remove_favorite
remove_favorite(name) ==
    \E e \in EnvInputs :
        IF check_if_empty(favorites)
        THEN /\ ret' = Ret("remove_by_name", name, "", 0, "EmptyList", NoRec, NoCalls)
             /\ MemUnchanged
             /\ UNCHANGED << favorites, favorite_country_int, ttl_seconds, now >>
        ELSE LET v == validate_name(name, FALSE, favorites, Mem, e)
                 found == v.ok /\ InList(name, favorites)
             IN
             /\ SetMem(v.mem)
             /\ favorites' = IF found THEN ListRemove(favorites, name) ELSE favorites
             /\ ret' = Ret("remove_by_name", name, "", 0,
                           IF found THEN "none" ELSE "NotFound", NoRec, v.mem.calls)
             /\ UNCHANGED << favorite_country_int, ttl_seconds, now >>

\* The list number used as the 0-based index
removed_at_list_number_zero_based(favs, n) == DelAt(favs, n + 1)

\* The list after remove_country_by_country_list_number for a validated list
\* number: favorites_index = n - 1, del self.favorites[favorites_index].
removed_at_list_number(favs, n) == DelAt(favs, n)

\* FavoritesModel.remove_country_by_country_list_number
remove_country_by_country_list_number(n) ==
    /\ IF check_if_empty(favorites)
       THEN /\ ret' = Ret("remove_by_position", "", "", n, "EmptyList", NoRec, NoCalls)
            /\ UNCHANGED favorites
       ELSE IF ~validate_country_number_in_favorites(n, favorites)
       THEN /\ ret' = Ret("remove_by_position", "", "", n, "InvalidPosition", NoRec, NoCalls)
            /\ UNCHANGED favorites
       ELSE /\ favorites' = removed_at_list_number(favorites, n)
            /\ ret' = Ret("remove_by_position", "", "", n, "none", NoRec, NoCalls)
    /\ MemUnchanged
    /\ UNCHANGED << favorite_country_int, ttl_seconds, now >>

\* check_if_empty called outside the try block
clear_error_uncaught(favs) == IF check_if_empty(favs) THEN "EmptyList" ELSE "none"

\* The error clear_favorites ends with: the ValueError of check_if_empty is
\* caught and logged as a warning.
clear_error(favs) == "none"

\* clear_favorites putting the pointer back to 1
clear_favorites_resetting_pointer ==
    /\ favorites' = << >>
    /\ favorite_country_int' = 1
    /\ ret' = Ret("clear", "", "", 0, "none", NoRec, NoCalls)
    /\ MemUnchanged
    /\ UNCHANGED << ttl_seconds, now >>

\* FavoritesModel.clear_favorites
clear_favorites ==
    /\ favorites' = IF clear_error(favorites) = "none" THEN << >> ELSE favorites
    /\ ret' = Ret("clear", "", "", 0, clear_error(favorites), NoRec, NoCalls)
    /\ MemUnchanged
    /\ UNCHANGED << favorite_country_int, ttl_seconds, now >>

\* The list index get_country_by_country_list_number reads: the result of
\* is_valid_country_list_number (a bool) minus one.
favorites_index_of_get(n, favs) == BoolToInt(is_valid_country_list_number(n, favs)) - 1

\* The body of get_country_by_country_list_number, shared with
\* get_favorite_country: the outcome for list number n.
get_by_list_number(n, favs, m, e) ==
    IF check_if_empty(favs)
    THEN [err |-> "EmptyList", key |-> "", country |-> NoRec, mem |-> m]
    ELSE LET key == ListItem(favs, favorites_index_of_get(n, favs))
             r == get_country(key, m, e)
         IN  [err |-> IF r.ok THEN "none" ELSE "NotFound", key |-> key,
              country |-> r.country, mem |-> r.mem]

\* FavoritesModel.get_country_by_country_list_number
get_country_by_country_list_number(n) ==
    \E e \in EnvInputs :
        LET g == get_by_list_number(n, favorites, Mem, e) IN
        /\ SetMem(g.mem)
        /\ ret' = Ret("get_by_position", g.key, "", n, g.err, g.country, g.mem.calls)
        /\ UNCHANGED << favorites, favorite_country_int, ttl_seconds, now >>

\* FavoritesModel.get_favorite_country
get_favorite_country ==
    \E e \in EnvInputs :
        LET g == get_by_list_number(favorite_country_int, favorites, Mem, e) IN
        /\ SetMem(g.mem)
        /\ ret' = Ret("get_current", g.key, "", favorite_country_int, g.err,
                      g.country, g.mem.calls)
        /\ UNCHANGED << favorites, favorite_country_int, ttl_seconds, now >>

\* go_to_country_list_number writing the pointer whatever the list number
pointer_after_go_to_unvalidated(pointer, n, favs) == n

\* The pointer after go_to_country_list_number: written only behind
\* check_if_empty and is_valid_country_list_number.
pointer_after_go_to(pointer, n, favs) ==
    IF ~check_if_empty(favs) /\ is_valid_country_list_number(n, favs)
    THEN n ELSE pointer

\* FavoritesModel.go_to_country_list_number
go_to_country_list_number(n) ==
    /\ ret' = Ret("set_pointer", "", "", n,
                  IF check_if_empty(favorites) THEN "EmptyList"
                  ELSE IF ~is_valid_country_list_number(n, favorites)
                  THEN "InvalidPosition" ELSE "none",
                  NoRec, NoCalls)
    /\ favorite_country_int' = pointer_after_go_to(favorite_country_int, n, favorites)
    /\ MemUnchanged
    /\ UNCHANGED << favorites, ttl_seconds, now >>

\* The common head of the three move operations: check_if_empty, then
\* validate_name(name).
move_validation(name, favs, m, e) ==
    IF check_if_empty(favs)
    THEN [err |-> "EmptyList", mem |-> m]
    ELSE LET v == validate_name(name, TRUE, favs, m, e) IN
         [err |-> IF v.ok THEN "none" ELSE "NotFound", mem |-> v.mem]

\* The name reinserted at index 1
moved_to_top_one_based(favs, name) == ListInsert(ListRemove(favs, name), 1, name)

\* The list written by move_country_to_top: remove(name), insert(0, name).
moved_to_top(favs, name) == ListInsert(ListRemove(favs, name), 0, name)

\* insert(-1, name) in place of append(name): the name lands before the
\* last entry
moved_to_bottom_before_last(favs, name) ==
    ListInsert(ListRemove(favs, name), 0 - 1, name)

\* The list written by move_country_to_bottom: remove(name), append(name).
moved_to_bottom(favs, name) == Append(ListRemove(favs, name), name)

\* FavoritesModel.move_country_to_top
move_country_to_top(name) ==
    \E e \in EnvInputs :
        LET v == move_validation(name, favorites, Mem, e) IN
        /\ SetMem(v.mem)
        /\ favorites' = IF v.err = "none" THEN moved_to_top(favorites, name)
                        ELSE favorites
        /\ ret' = Ret("move_to_top", name, "", 0, v.err, NoRec, v.mem.calls)
        /\ UNCHANGED << favorite_country_int, ttl_seconds, now >>

\* FavoritesModel.move_country_to_bottom
move_country_to_bottom(name) ==
    \E e \in EnvInputs :
        LET v == move_validation(name, favorites, Mem, e) IN
        /\ SetMem(v.mem)
        /\ favorites' = IF v.err = "none" THEN moved_to_bottom(favorites, name)
                        ELSE favorites
        /\ ret' = Ret("move_to_bottom", name, "", 0, v.err, NoRec, v.mem.calls)
        /\ UNCHANGED << favorite_country_int, ttl_seconds, now >>

\* The name exchanged with the entry at the list number
moved_to_list_number_swapping(favs, name, n) ==
    [k \in 1..Len(favs) |->
        IF k = n THEN name
        ELSE IF k = FirstIndex(favs, name) THEN favs[n]
        ELSE favs[k]]

\* The list written by move_country_to_country_list_number once name and
\* list number are validated: remove(name), insert(list number - 1, name).
moved_to_list_number(favs, name, n) == ListInsert(ListRemove(favs, name), n - 1, name)

\* move_country_to_country_list_number removing the name before the list
\* number is validated
favorites_after_move_early_remove(favs, name, n, err) ==
    IF err = "none" THEN moved_to_list_number(favs, name, n)
    ELSE IF err = "InvalidPosition" THEN ListRemove(favs, name)
    ELSE favs

\* The list after move_country_to_country_list_number ended with err: the
\* list is rewritten only behind both validations.
favorites_after_move(favs, name, n, err) ==
    IF err = "none" THEN moved_to_list_number(favs, name, n) ELSE favs

\* FavoritesModel.move_country_to_country_list_number
move_country_to_country_list_number(name, n) ==
    \E e \in EnvInputs :
        LET v == move_validation(name, favorites, Mem, e)
            err == IF v.err # "none" THEN v.err
                   ELSE IF ~is_valid_country_list_number(n, favorites)
                   THEN "InvalidPosition" ELSE "none"
        IN
        /\ SetMem(v.mem)
        /\ favorites' = favorites_after_move(favorites, name, n, err)
        /\ ret' = Ret("move_to_position", name, "", n, err, NoRec, v.mem.calls)
        /\ UNCHANGED << favorite_country_int, ttl_seconds, now >>

\* The membership test made on the first name only
compare_not_in_favorites_first_only(name1, name2, favs) == ~InList(name1, favs)

\* The test that opens compare_two_favorites: country1_name not in
\* self.favorites or country2_name not in self.favorites.
compare_not_in_favorites(name1, name2, favs) ==
    ~InList(name1, favs) \/ ~InList(name2, favs)

\* Python: abs(x)
Abs(x) == IF x < 0 THEN 0 - x ELSE x

\* Python: x or default, for a string x
OrDefault(x, default) == IF x = "" THEN default ELSE x

\* The difference taken without abs()
population_difference_signed(country1, country2) ==
    country1.population - country2.population

\* abs(country1.population - country2.population)
population_difference(country1, country2) ==
    Abs(country1.population - country2.population)

\* The dict compare_two_favorites returns for the two resolved records; the
\* two shared lists are built from set intersections.
comparison(country1, country2) ==
    [countries |-> << country1.name, country2.name >>,
     population_difference |-> population_difference(country1, country2),
     shared_languages |-> country1.languages \cap country2.languages,
     shared_currencies |-> country1.currencies \cap country2.currencies,
     regions |-> << country1.region, country2.region >>,
     flags |-> << OrDefault(country1.flag_url, "No flag available"),
                  OrDefault(country2.flag_url, "No flag available") >>]

\* FavoritesModel.compare_two_favorites: the membership test, then the two
\* resolutions; the first ValueError ends the call.
compare_two_favorites(name1, name2) ==
    \E e1 \in EnvInputs : \E e2 \in EnvInputs :
        IF compare_not_in_favorites(name1, name2, favorites)
        THEN /\ ret' = Ret("compare", name1, name2, 0, "NotInList", NoRec, NoCalls)
             /\ MemUnchanged
             /\ UNCHANGED << favorites, favorite_country_int, ttl_seconds, now >>
        ELSE LET r1 == get_country(name1, Mem, e1)
                 r2 == IF r1.ok THEN get_country(name2, r1.mem, e2) ELSE r1
             IN
             /\ SetMem(r2.mem)
             /\ ret' = Ret("compare", name1, name2, 0,
                           IF r2.ok THEN "none" ELSE "NotFound",
                           IF r2.ok THEN comparison(r1.country, r2.country)
                           ELSE NoRec,
                           r2.mem.calls)
             /\ UNCHANGED << favorites, favorite_country_int, ttl_seconds, now >>

\* [self.get_country(name) for name in self.favorites], from list number i
\* on, under the answers es[i]: the first ValueError ends the comprehension.
RECURSIVE get_all_from(_, _, _, _)
get_all_from(favs, i, m, es) ==
    IF i > Len(favs)
    THEN [ok |-> TRUE, countries |-> << >>, mem |-> m]
    ELSE LET r == get_country(favs[i], m, es[i]) IN
         IF ~r.ok
         THEN [ok |-> FALSE, countries |-> << >>, mem |-> r.mem]
         ELSE LET rest == get_all_from(favs, i + 1, r.mem, es) IN
              [ok |-> rest.ok,
               countries |-> IF rest.ok THEN << r.country >> \o rest.countries
                             ELSE << >>,
               mem |-> rest.mem]

\* FavoritesModel.get_all_countries
get_all_countries ==
    IF check_if_empty(favorites)
    THEN /\ ret' = Ret("get_all", "", "", 0, "EmptyList", NoRec, NoCalls)
         /\ MemUnchanged
         /\ UNCHANGED << favorites, favorite_country_int, ttl_seconds, now >>
    ELSE \E es \in [1..Len(favorites) -> EnvInputs] :
             LET g == get_all_from(favorites, 1, Mem, es) IN
             /\ SetMem(g.mem)
             /\ ret' = Ret("get_all", "", "", 0,
                           IF g.ok THEN "none" ELSE "NotFound",
                           IF g.ok THEN g.countries ELSE NoRec, g.mem.calls)
             /\ UNCHANGED << favorites, favorite_country_int, ttl_seconds, now >>

\* FavoritesModel.get_favorites_length
get_favorites_length(favs) == Len(favs)

\* The route get_favorites_length_and_population of app.py: it calls
\* get_favorites_length and then get_favorites_population, a method
\* FavoritesModel does not define; the AttributeError ends the request with
\* the error response.
get_favorites_length_and_population ==
    LET favorites_length == get_favorites_length(favorites) IN
    /\ ret' = Ret("length_and_population", "", "", 0, "AttributeError", NoRec,
                  NoCalls)
    /\ MemUnchanged
    /\ UNCHANGED << favorites, favorite_country_int, ttl_seconds, now >>

\* ---------------------------------------------------------------- environment
\* Names a caller may send to create_country, before str.strip()
RawNames == Names \cup {" Canada "}

\* Python: str.strip()
Strip(raw) == IF raw = " Canada " THEN "Canada" ELSE raw

\* CountryData.create_country for a record that passes validate(): the
\* lookup of an existing row by the name as given, then the insert of the
\* row with the stripped name.
create_country(raw) ==
    /\ IF find_by_name(store, raw) # NoRec
       THEN /\ ret' = Ret("create_country", raw, "", 0, "AlreadyExists", NoRec, NoCalls)
            /\ UNCHANGED store
       ELSE /\ Len(store) < MaxStore
            /\ store' = Append(store, Rec(Strip(raw)))
            /\ ret' = Ret("create_country", raw, "", 0, "none", NoRec, NoCalls)
    /\ UNCHANGED << favorites, favorite_country_int, country_cache, ttl,
                    ttl_seconds, now, hist >>

\* CountryData.delete_country: deletes the first row with that name
delete_country(name) ==
    /\ IF find_by_name(store, name) = NoRec
       THEN /\ ret' = Ret("delete_country", name, "", 0, "NotFound", NoRec, NoCalls)
            /\ UNCHANGED store
       ELSE /\ store' = DelAt(store, FirstIndex([i \in 1..Len(store) |-> store[i].name], name))
            /\ ret' = Ret("delete_country", name, "", 0, "none", NoRec, NoCalls)
    /\ UNCHANGED << favorites, favorite_country_int, country_cache, ttl,
                    ttl_seconds, now, hist >>

\* time.time() moves on between two calls
Tick ==
    /\ now < MaxTime
    /\ now' = now + 1
    /\ ret' = Ret("tick", "", "", 0, "none", NoRec, NoCalls)
    /\ UNCHANGED << favorites, favorite_country_int, country_cache, ttl,
                    ttl_seconds, store, hist >>

\* The caller has taken the response; the model instance waits for the next
\* request.
Return ==
    /\ ret.op # "idle"
    /\ ret' = Idle
    /\ UNCHANGED << favorites, favorite_country_int, country_cache, ttl,
                    ttl_seconds, store, now, hist >>

\* One favorites request
FavoritesCall ==
    \/ \E name \in Names : add_country_to_favorites(name)
    \/ \E name \in Names : remove_favorite(name)
    \/ \E n \in Positions : remove_country_by_country_list_number(n)
    \/ clear_favorites
    \/ \E n \in Positions : get_country_by_country_list_number(n)
    \/ get_favorite_country
    \/ \E n \in Positions : go_to_country_list_number(n)
    \/ \E name \in Names : move_country_to_top(name)
    \/ \E name \in Names : move_country_to_bottom(name)
    \/ \E name \in Names : \E n \in Positions : move_country_to_country_list_number(name, n)
    \/ \E name1, name2 \in Names : compare_two_favorites(name1, name2)
    \/ get_all_countries
    \/ get_favorites_length_and_population

\* One catalog request
CatalogCall ==
    \/ \E raw \in RawNames : create_country(raw)
    \/ \E name \in Names : delete_country(name)

\* The favorites list over the resolver, at one clock reading.
Next ==
    \/ ret.op = "idle" /\ FavoritesCall /\ UNCHANGED requests
    \/ ret.op = "idle" /\ CatalogCall /\ UNCHANGED requests
    \/ Return /\ UNCHANGED requests

Spec == Init /\ [][Next]_vars

\* The resolver over the catalog store and the provider, as time passes.
NextResolver ==
    \/ ret.op = "idle" /\ (\E name \in Names : resolve(name)) /\ UNCHANGED requests
    \/ ret.op = "idle" /\ CatalogCall /\ UNCHANGED requests
    \/ ret.op = "idle" /\ Tick /\ UNCHANGED requests
    \/ Return /\ UNCHANGED requests

SpecResolver == Init /\ [][NextResolver]_vars

\* ---------------------------------------------------------------- request threads
\* app.run serves every request in a thread of its own and all routes share
\* the one favorites_model of create_app. No lock surrounds the methods of
\* FavoritesModel, so a thread can be suspended between two statements of a
\* method while another thread runs.

\* The statement thread t runs next is pc of a call of op.
At(t, op, pc) == requests[t].op = op /\ requests[t].pc = pc

\* add_country_to_favorites, first statement: the duplicate test
add_check(t, name) ==
    /\ requests[t].pc = "idle"
    /\ requests' = [requests EXCEPT ![t] =
           IF AlreadyInFavorites(name, favorites) THEN NoRequest
           ELSE [pc |-> "validate", op |-> "add", name |-> name]]
    /\ MemUnchanged
    /\ UNCHANGED << favorites, favorite_country_int, ttl_seconds, now, ret >>

\* add_country_to_favorites, second statement: validate_name(name, False)
add_validate(t) ==
    /\ At(t, "add", "validate")
    /\ \E e \in EnvInputs :
           LET v == validate_name(requests[t].name, FALSE, favorites, Mem, e) IN
           /\ SetMem(v.mem)
           /\ requests' = [requests EXCEPT ![t] =
                  IF v.ok THEN [@ EXCEPT !.pc = "append"] ELSE NoRequest]
    /\ UNCHANGED << favorites, favorite_country_int, ttl_seconds, now, ret >>

\* add_country_to_favorites, last statement: self.favorites.append(name)
add_append(t) ==
    /\ At(t, "add", "append")
    /\ Len(favorites) < MaxFavorites
    /\ favorites' = favorites_after_add(favorites, requests[t].name, TRUE)
    /\ requests' = [requests EXCEPT ![t] = NoRequest]
    /\ MemUnchanged
    /\ UNCHANGED << favorite_country_int, ttl_seconds, now, ret >>

\* move_country_to_top, first statement: self.check_if_empty()
top_check(t, name) ==
    /\ requests[t].pc = "idle"
    /\ requests' = [requests EXCEPT ![t] =
           IF check_if_empty(favorites) THEN NoRequest
           ELSE [pc |-> "validate", op |-> "move_to_top", name |-> name]]
    /\ MemUnchanged
    /\ UNCHANGED << favorites, favorite_country_int, ttl_seconds, now, ret >>

\* move_country_to_top, second statement: self.validate_name(name)
top_validate(t) ==
    /\ At(t, "move_to_top", "validate")
    /\ \E e \in EnvInputs :
           LET v == validate_name(requests[t].name, TRUE, favorites, Mem, e) IN
           /\ SetMem(v.mem)
           /\ requests' = [requests EXCEPT ![t] =
                  IF v.ok THEN [@ EXCEPT !.pc = "remove"] ELSE NoRequest]
    /\ UNCHANGED << favorites, favorite_country_int, ttl_seconds, now, ret >>

\* move_country_to_top, third statement: self.favorites.remove(name), which
\* raises ValueError when the name is no longer in the list
top_remove(t) ==
    /\ At(t, "move_to_top", "remove")
    /\ IF InList(requests[t].name, favorites)
       THEN /\ favorites' = ListRemove(favorites, requests[t].name)
            /\ requests' = [requests EXCEPT ![t].pc = "insert"]
       ELSE /\ UNCHANGED favorites
            /\ requests' = [requests EXCEPT ![t] = NoRequest]
    /\ MemUnchanged
    /\ UNCHANGED << favorite_country_int, ttl_seconds, now, ret >>

\* move_country_to_top, last statement: self.favorites.insert(0, name)
top_insert(t) ==
    /\ At(t, "move_to_top", "insert")
    /\ favorites' = ListInsert(favorites, 0, requests[t].name)
    /\ requests' = [requests EXCEPT ![t] = NoRequest]
    /\ MemUnchanged
    /\ UNCHANGED << favorite_country_int, ttl_seconds, now, ret >>

\* The statements of one request thread
ThreadStep(t) ==
    \/ \E name \in Names : add_check(t, name)
    \/ add_validate(t)
    \/ add_append(t)
    \/ \E name \in Names : top_check(t, name)
    \/ top_validate(t)
    \/ top_remove(t)
    \/ top_insert(t)

\* The request threads over the shared favorites_model.
NextThreads == \E t \in Threads : ThreadStep(t)

SpecThreads == Init /\ [][NextThreads]_vars

TypeOK ==
    /\ favorites \in Seq(Names)
    /\ favorite_country_int \in Positions
    /\ now \in 0..MaxTime
    /\ Len(store) <= MaxStore

\* ---------------------------------------------------------------- claims
InRange(pos, favs) == 1 <= pos /\ pos <= Len(favs)

Range(seq) == {seq[i] : i \in 1..Len(seq)}

FavoritesOps == {"add", "remove_by_name", "remove_by_position", "clear",
                 "get_by_position", "get_current", "set_pointer", "move_to_top",
                 "move_to_bottom", "move_to_position", "compare", "get_all",
                 "length_and_population"}

\* C1: in every state reachable from the empty list through the favorites
\* operations, successful or failing, no country name appears twice in the
\* list.
C1_UniqueNames == NoDuplicates(favorites)

\* C1 witness: a full list has just been reordered.
C1_Witness ==
    /\ ret.op = "move_to_position" /\ ret.err = "none"
    /\ Len(favorites) = Cardinality(Names)

\* C2: on a non-empty list get_by_position(pos) fails with InvalidPosition
\* when pos is outside [1, length] and otherwise returns the record resolved
\* for the pos-th name of the list.
C2_GetByPosition ==
    (ret.op = "get_by_position" /\ Len(favorites) > 0) =>
        IF InRange(ret.pos, favorites)
        THEN /\ ret.err \in {"none", "NotFound"}
             /\ ret.err = "none" => ret.name = favorites[ret.pos]
        ELSE ret.err = "InvalidPosition"

\* C3: right after a successful move_to_position(name, k), get_by_position(k)
\* returns the record resolved for name.
C3_MoveThenGet ==
    (ret.op = "move_to_position" /\ ret.err = "none") =>
        \A e \in EnvInputs :
            LET g == get_by_list_number(ret.pos, favorites, Mem, e) IN
            g.err = "none" => g.key = ret.name

\* C4: get_current() fails with EmptyList on an empty list, fails as
\* get_by_position(pointer) is specified to fail when the pointer is outside
\* [1, length], and otherwise returns the record resolved for the name at
\* list number pointer.
C4_GetCurrent ==
    ret.op = "get_current" =>
        IF Len(favorites) = 0 THEN ret.err = "EmptyList"
        ELSE IF InRange(favorite_country_int, favorites)
        THEN /\ ret.err \in {"none", "NotFound"}
             /\ ret.err = "none" => ret.name = favorites[favorite_country_int]
        ELSE ret.err = "InvalidPosition"

\* C5: whenever the favorites list is non-empty, the current pointer is a
\* valid list number, 1 <= pointer <= length.
C5_PointerInRange ==
    Len(favorites) > 0 => InRange(favorite_country_int, favorites)

\* C6: a favorites operation that fails leaves the ordered name sequence and
\* the current pointer exactly as they were before the call.
C6_FailureKeepsList ==
    [][(ret'.op \in FavoritesOps /\ ret'.err # "none") =>
           /\ favorites' = favorites
           /\ favorite_country_int' = favorite_country_int]_vars

\* C6 witness: a move on a list of several names failed on its list number,
\* after the name had been validated.
C6_Witness ==
    /\ ret.op = "move_to_position" /\ ret.err = "InvalidPosition"
    /\ Len(favorites) >= 2

\* Entry n of the cache is the same before and after the step.
CacheEntryKept(n) ==
    /\ n \in DOMAIN country_cache /\ n \in DOMAIN country_cache'
    /\ country_cache'[n] = country_cache[n]
    /\ n \in DOMAIN ttl /\ n \in DOMAIN ttl'
    /\ ttl'[n] = ttl[n]

\* C7 as claimed: a favorites operation that fails leaves the resolver cache,
\* records and expiry timestamps, exactly as it was before the call.
C7_FailureKeepsCache ==
    [][(ret'.op \in FavoritesOps /\ ret'.err # "none") =>
           /\ country_cache' = country_cache
           /\ ttl' = ttl]_vars

\* C7 amended: a favorites operation that fails drops no cache entry, and
\* every entry it adds or changes belongs to a name the call resolved from
\* the store or the provider and expires at now + ttl_seconds; a call that
\* fails with AlreadyExists, EmptyList or NotInList, or a failing
\* set_pointer or remove_by_position, leaves the cache as it was.
C7_FailureCachesOnlyResolved ==
    [][(ret'.op \in FavoritesOps /\ ret'.err # "none") =>
           /\ DOMAIN country_cache \subseteq DOMAIN country_cache'
           /\ DOMAIN ttl \subseteq DOMAIN ttl'
           /\ \A n \in DOMAIN country_cache' :
                  \/ CacheEntryKept(n)
                  \/ /\ \/ Call("store", n, "found") \in Range(ret'.calls)
                        \/ Call("insert", n, "ok") \in Range(ret'.calls)
                     /\ ttl'[n] = now + ttl_seconds
           /\ (\/ ret'.err \in {"AlreadyExists", "EmptyList", "NotInList"}
               \/ ret'.op \in {"set_pointer", "remove_by_position"}) =>
                  /\ country_cache' = country_cache
                  /\ ttl' = ttl]_vars

\* C7 witness: remove_by_name of a name that resolved but is not in the list
\* has failed, and the name is cached.
C7_Witness ==
    /\ ret.op = "remove_by_name" /\ ret.err = "NotFound"
    /\ ~InList(ret.name, favorites)
    /\ Len(favorites) > 0
    /\ Call("insert", ret.name, "ok") \in Range(ret.calls)
    /\ ret.name \in DOMAIN country_cache

\* C8 as claimed: after resolve(name) succeeded at time t, a resolve(name) at
\* a time t' with t <= t' < t + ttl_seconds returns the cached record and
\* queries neither the store nor the provider.
C8_HitAfterAnySuccess ==
    [][(/\ ret'.op = "resolve"
        /\ hist[ret'.name].ok >= 0
        /\ hist[ret'.name].ok <= now
        /\ now < hist[ret'.name].ok + ttl_seconds) =>
           /\ ret'.calls = << Call("cache", ret'.name, "hit") >>
           /\ ret'.err = "none"
           /\ ret'.val = country_cache[ret'.name]]_vars

\* C8 amended: after a resolve(name) that refreshed the cache entry at time t
\* (it missed the cache and succeeded), a resolve(name) at a time t' with
\* t <= t' < t + ttl_seconds returns the cached record and queries neither
\* the store nor the provider.
C8_HitAfterRefresh ==
    [][(/\ ret'.op = "resolve"
        /\ hist[ret'.name].refresh >= 0
        /\ hist[ret'.name].refresh <= now
        /\ now < hist[ret'.name].refresh + ttl_seconds) =>
           /\ ret'.calls = << Call("cache", ret'.name, "hit") >>
           /\ ret'.err = "none"
           /\ ret'.val = country_cache[ret'.name]]_vars

\* C8 witness: a resolution was served from the cache at a later clock
\* reading than the refresh, with the record gone from the store.
C8_Witness ==
    /\ ret.op = "resolve"
    /\ ret.calls = << Call("cache", ret.name, "hit") >>
    /\ hist[ret.name].refresh < now
    /\ find_by_name(store, ret.name) = NoRec

\* C9: when resolve(name) misses the cache and the store, the provider
\* returns a record and the store rejects the insert, resolve still returns
\* the fetched record and caches it.
C9_RejectedInsertStillResolves ==
    (ret.op = "resolve" /\ Call("insert", ret.name, "rollback") \in Range(ret.calls)) =>
        /\ ret.err = "none"
        /\ ret.val # NoRec
        /\ ret.name \in DOMAIN country_cache
        /\ country_cache[ret.name] = ret.val

\* C10: when name has no fresh cache entry, is absent from the store and the
\* provider returns absent, resolve(name) fails with NotFound, creates or
\* refreshes no cache entry, and has queried the store and then the provider.
C10_NoNegativeCaching ==
    [][(/\ ret'.op = "resolve"
        /\ ~(ret'.name \in DOMAIN country_cache /\ ttl[ret'.name] > now)
        /\ \A i \in 1..Len(store) : store[i].name # ret'.name
        /\ Call("provider", ret'.name, "absent") \in Range(ret'.calls)) =>
           /\ ret'.err = "NotFound"
           /\ country_cache' = country_cache
           /\ ttl' = ttl
           /\ ret'.calls = << Call("store", ret'.name, "absent"),
                              Call("provider", ret'.name, "absent") >>]_vars

\* C10 witness: a resolution failed through all tiers for a name whose stale
\* entry is still in the cache, where an earlier one had failed or succeeded.
C10_Witness ==
    /\ ret.op = "resolve" /\ ret.err = "NotFound"
    /\ ret.calls = << Call("store", ret.name, "absent"),
                      Call("provider", ret.name, "absent") >>
    /\ ret.name \in DOMAIN country_cache
    /\ ttl[ret.name] <= now

\* The call resolved name n: from the cache, the store, or the provider with
\* the write-back committed.
Resolved(calls, n) ==
    \/ Call("cache", n, "hit") \in Range(calls)
    \/ Call("store", n, "found") \in Range(calls)
    \/ Call("insert", n, "ok") \in Range(calls)

\* The list s with every entry equal to name left out.
Without(s, name) == LET Keep(x) == x # name IN SelectSeq(s, Keep)

\* C11: add(name) for a name already in the list fails with AlreadyExists
\* before any resolution, and the list is unchanged after the failed call.
C11_DuplicateAddFails ==
    [][(ret'.op = "add" /\ InList(ret'.name, favorites)) =>
           /\ ret'.err = "AlreadyExists"
           /\ favorites' = favorites
           /\ ret'.calls = NoCalls
           /\ country_cache' = country_cache /\ ttl' = ttl /\ store' = store]_vars

\* C11 witness: a duplicate add was refused on a list of several names, the
\* name not being the last one.
C11_Witness ==
    /\ ret.op = "add" /\ ret.err = "AlreadyExists"
    /\ Len(favorites) >= 2
    /\ favorites[1] = ret.name

\* C12: add(name) for a resolvable name not in the list appends it: length
\* grows by exactly 1, the name is at list number length, and all previous
\* entries keep their positions.
C12_AddAppends ==
    [][(/\ ret'.op = "add"
        /\ ~InList(ret'.name, favorites)
        /\ Resolved(ret'.calls, ret'.name)) =>
           /\ ret'.err = "none"
           /\ Len(favorites') = Len(favorites) + 1
           /\ favorites'[Len(favorites')] = ret'.name
           /\ \A i \in 1..Len(favorites) : favorites'[i] = favorites[i]]_vars

\* C12 witness: an add has filled the list behind two earlier names.
C12_Witness ==
    /\ ret.op = "add" /\ ret.err = "none"
    /\ Len(favorites) = Cardinality(Names)
    /\ favorites[Len(favorites)] = ret.name

\* C13: on a non-empty list remove_by_position(p) with p in [1, length]
\* decreases the length by exactly 1, removes the entry at list number p
\* and keeps the order of the others, later entries shifting down by one.
C13_RemoveByPosition ==
    [][(/\ ret'.op = "remove_by_position"
        /\ Len(favorites) > 0
        /\ InRange(ret'.pos, favorites)) =>
           /\ ret'.err = "none"
           /\ Len(favorites') = Len(favorites) - 1
           /\ \A i \in 1..(ret'.pos - 1) : favorites'[i] = favorites[i]
           /\ \A i \in ret'.pos..(Len(favorites) - 1) :
                  favorites'[i] = favorites[i + 1]]_vars

\* C13 witness: the middle entry of a list of three has been removed.
C13_Witness ==
    /\ ret.op = "remove_by_position" /\ ret.err = "none"
    /\ ret.pos = 2
    /\ Len(favorites) = 2

\* C14: remove_by_position(pos) fails with EmptyList on an empty list and
\* with InvalidPosition when pos is outside [1, length] on a non-empty list;
\* in both cases nothing is removed.
C14_RemoveByPositionFails ==
    [][ret'.op = "remove_by_position" =>
           /\ Len(favorites) = 0 => ret'.err = "EmptyList"
           /\ (Len(favorites) > 0 /\ ~InRange(ret'.pos, favorites)) =>
                  ret'.err = "InvalidPosition"
           /\ ret'.err # "none" => favorites' = favorites]_vars

\* C14 witness: a list number beyond the length was refused on a one-element
\* list.
C14_Witness ==
    /\ ret.op = "remove_by_position" /\ ret.err = "InvalidPosition"
    /\ Len(favorites) = 1
    /\ ret.pos = MaxPos

\* C15: remove_by_name(name) fails with EmptyList on an empty list and with
\* NotFound when name is not in the list; for a resolvable name in the list
\* it removes exactly that name, the length drops by 1 and the remaining
\* entries keep their order.
C15_RemoveByName ==
    [][ret'.op = "remove_by_name" =>
           /\ Len(favorites) = 0 => ret'.err = "EmptyList"
           /\ (Len(favorites) > 0 /\ ~InList(ret'.name, favorites)) =>
                  /\ ret'.err = "NotFound"
                  /\ favorites' = favorites
           /\ (InList(ret'.name, favorites) /\ Resolved(ret'.calls, ret'.name)) =>
                  /\ ret'.err = "none"
                  /\ Len(favorites') = Len(favorites) - 1
                  /\ favorites' = Without(favorites, ret'.name)]_vars

\* C15 witness: a name has been removed from a list of three.
C15_Witness ==
    /\ ret.op = "remove_by_name" /\ ret.err = "none"
    /\ Len(favorites) = 2
    /\ ~InList(ret.name, favorites)

\* C16: on a non-empty list remove_by_name(name) fails with NotFound whenever
\* no tier resolves name (no fresh cache entry, absent from the store, the
\* provider absent), also when name is in the list, and the list is kept.
C16_UnresolvableRemoveFails ==
    [][(/\ ret'.op = "remove_by_name"
        /\ Len(favorites) > 0
        /\ ~(ret'.name \in DOMAIN country_cache /\ ttl[ret'.name] > now)
        /\ \A i \in 1..Len(store) : store[i].name # ret'.name
        /\ Call("provider", ret'.name, "absent") \in Range(ret'.calls)) =>
           /\ ret'.err = "NotFound"
           /\ favorites' = favorites]_vars

\* C16 witness: the removal of a listed name failed because no tier resolved
\* it, and the name is still in the list.
C16_Witness ==
    /\ ret.op = "remove_by_name" /\ ret.err = "NotFound"
    /\ InList(ret.name, favorites)
    /\ Call("provider", ret.name, "absent") \in Range(ret.calls)

\* C17: clear() always succeeds and leaves the list empty; on an empty list
\* it changes nothing, so a second clear leaves the state of the first.
C17_ClearAlwaysSucceeds ==
    [][ret'.op = "clear" =>
           /\ ret'.err = "none"
           /\ favorites' = << >>
           /\ favorites = << >> =>
                  UNCHANGED << favorites, favorite_country_int, country_cache,
                               ttl, store >>]_vars

\* C17 witness: a clear has emptied the list of a model whose pointer had
\* been moved and whose cache is filled.
C17_Witness ==
    /\ ret.op = "clear" /\ ret.err = "none"
    /\ favorites = << >>
    /\ favorite_country_int >= 2
    /\ DOMAIN country_cache # {}

\* The outcome of a move to an end of the list, common to C18's two halves.
MoveToEndOutcome(end) ==
    /\ Len(favorites) = 0 => ret'.err = "EmptyList"
    /\ (Len(favorites) > 0 /\ ~InList(ret'.name, favorites)) =>
           /\ ret'.err = "NotFound"
           /\ favorites' = favorites
    /\ (InList(ret'.name, favorites) /\ Resolved(ret'.calls, ret'.name)) =>
           /\ ret'.err = "none"
           /\ Len(favorites') = Len(favorites)
           /\ favorites'[IF end = "top" THEN 1 ELSE Len(favorites)] = ret'.name
           /\ favorites[IF end = "top" THEN 1 ELSE Len(favorites)] = ret'.name =>
                  favorites' = favorites

\* C18: for a resolvable name of the list, move_to_top(name) puts it at list
\* number 1 and move_to_bottom(name) at list number length, the order being
\* unchanged when it is already there; both fail with EmptyList on an empty
\* list and with NotFound when name is not in the list.
C18_MoveToEnds ==
    [][/\ ret'.op = "move_to_top" => MoveToEndOutcome("top")
       /\ ret'.op = "move_to_bottom" => MoveToEndOutcome("bottom")]_vars

\* C18 witness: the last name of a list of three has been moved to the top.
C18_Witness ==
    /\ ret.op = "move_to_top" /\ ret.err = "none"
    /\ Len(favorites) = Cardinality(Names)
    /\ favorites[1] = ret.name

\* C19: for a validated name, move_to_position(name, pos) fails with
\* InvalidPosition for every pos outside [1, length], the length counted
\* with name still in the list, and leaves the order unchanged; it accepts
\* every pos inside, pos = length included.
C19_MovePositionValidation ==
    [][(/\ ret'.op = "move_to_position"
        /\ InList(ret'.name, favorites)
        /\ Resolved(ret'.calls, ret'.name)) =>
           IF InRange(ret'.pos, favorites)
           THEN ret'.err = "none"
           ELSE /\ ret'.err = "InvalidPosition"
                /\ favorites' = favorites]_vars

\* C19 witness: a move to list number length was accepted on a list of
\* several names.
C19_Witness ==
    /\ ret.op = "move_to_position" /\ ret.err = "none"
    /\ Len(favorites) >= 2
    /\ ret.pos = Len(favorites)
    /\ favorites[Len(favorites)] = ret.name

\* What set_pointer(pos) does when it does not fail, and what it never does.
SetPointerFrame ==
    /\ ret'.err # "none" => favorite_country_int' = favorite_country_int
    /\ ret'.err = "none" => favorite_country_int' = ret'.pos
    /\ favorites' = favorites
    /\ ret'.calls = NoCalls
    /\ country_cache' = country_cache /\ ttl' = ttl /\ store' = store

\* C20 as claimed: on every list, empty or not, set_pointer(pos) fails with
\* InvalidPosition when pos is outside [1, length] and leaves the pointer
\* unchanged; otherwise it sets the pointer to pos, leaves the list
\* unchanged and performs no resolution.
C20_SetPointerInvalidPosition ==
    [][ret'.op = "set_pointer" =>
           /\ ret'.err = IF InRange(ret'.pos, favorites) THEN "none"
                         ELSE "InvalidPosition"
           /\ SetPointerFrame]_vars

\* C20 amended: set_pointer(pos) fails with EmptyList on an empty list and
\* with InvalidPosition when pos is outside [1, length] on a non-empty list,
\* leaving the pointer unchanged; otherwise it sets the pointer to pos; in
\* every case the list is unchanged and no resolution is performed.
C20_SetPointer ==
    [][ret'.op = "set_pointer" =>
           /\ ret'.err = IF Len(favorites) = 0 THEN "EmptyList"
                         ELSE IF InRange(ret'.pos, favorites) THEN "none"
                         ELSE "InvalidPosition"
           /\ SetPointerFrame]_vars

\* C20 witness: set_pointer was refused on an emptied list whose pointer
\* still holds an earlier list number.
C20_Witness ==
    /\ ret.op = "set_pointer" /\ ret.err = "EmptyList"
    /\ favorites = << >>
    /\ favorite_country_int >= 2
    /\ ret.pos >= 1

\* The names of the rows of the catalog table, in row order.
StoreNames(st) == [i \in 1..Len(st) |-> st[i].name]

\* C21: in every reachable state of the catalog store no two records have
\* the same name: create_country refuses a name already stored, names that
\* differ only by surrounding whitespace included, and a resolver write-back
\* never adds a second record with an existing name.
C21_CatalogUniqueNames == NoDuplicates(StoreNames(store))

\* C22: compare(name1, name2) fails with NotInList whenever name1 or name2 is
\* absent from the favorites list, an empty list included, before any
\* resolution is attempted; list, pointer and cache are unchanged.
C22_CompareNotInList ==
    [][(/\ ret'.op = "compare"
        /\ (~InList(ret'.name, favorites) \/ ~InList(ret'.name2, favorites))) =>
           /\ ret'.err = "NotInList"
           /\ ret'.calls = NoCalls
           /\ favorites' = favorites
           /\ favorite_country_int' = favorite_country_int
           /\ country_cache' = country_cache /\ ttl' = ttl /\ store' = store]_vars

\* C22 witness: a compare was refused for a listed first name and a second
\* name that is not in the list, on a model whose cache is filled.
C22_Witness ==
    /\ ret.op = "compare" /\ ret.err = "NotInList"
    /\ InList(ret.name, favorites)
    /\ ~InList(ret.name2, favorites)
    /\ DOMAIN country_cache # {}

\* The last resolution of the call was one of name n and succeeded.
ResolvedLast(calls, n) ==
    /\ Len(calls) > 0
    /\ calls[Len(calls)] \in {Call("cache", n, "hit"), Call("store", n, "found"),
                               Call("insert", n, "ok")}

\* C23: for two names of the list that both resolve, compare(a, b) returns
\* population_difference = |population(a) - population(b)| (331000000 and
\* 38000000 give 293000000), the shared languages and currencies as the
\* intersections of the two records' fields, and the pair of regions; the
\* difference and the shared sets are those of compare(b, a).
C23_Compare ==
    [][(/\ ret'.op = "compare"
        /\ InList(ret'.name, favorites) /\ InList(ret'.name2, favorites)
        /\ Resolved(ret'.calls, ret'.name)
        /\ ResolvedLast(ret'.calls, ret'.name2)) =>
           LET a == country_cache'[ret'.name]
               b == country_cache'[ret'.name2]
               swapped == comparison(b, a)
           IN
           /\ ret'.err = "none"
           /\ ret'.val.population_difference >= 0
           /\ \/ ret'.val.population_difference = a.population - b.population
              \/ ret'.val.population_difference = b.population - a.population
           /\ {a.population, b.population} = {331000000, 38000000} =>
                  ret'.val.population_difference = 293000000
           /\ ret'.val.shared_languages = a.languages \cap b.languages
           /\ ret'.val.shared_currencies = a.currencies \cap b.currencies
           /\ ret'.val.regions = << a.region, b.region >>
           /\ swapped.population_difference = ret'.val.population_difference
           /\ swapped.shared_languages = ret'.val.shared_languages
           /\ swapped.shared_currencies = ret'.val.shared_currencies]_vars

\* C23 witness: Canada has been compared with the United States, the less
\* populated country first.
C23_Witness ==
    /\ ret.op = "compare" /\ ret.err = "none"
    /\ ret.name = "Canada" /\ ret.name2 = "USA"
    /\ ret.val.population_difference = 293000000
    /\ ret.val.shared_languages = {"English"}
    /\ ret.val.shared_currencies = {}

\* C24: when name has no fresh cache entry and the catalog store holds a
\* record with exactly that name, resolve(name) returns the store's record,
\* sets the cache entry of name to it with expiry = now + ttl_seconds, and
\* never queries the provider.
C24_StoreHit ==
    [][(/\ ret'.op = "resolve"
        /\ ~CacheFresh(ret'.name, country_cache, ttl, now)
        /\ \E i \in 1..Len(store) : store[i].name = ret'.name) =>
           /\ ret'.err = "none"
           /\ ret'.val \in Range(store)
           /\ ret'.val.name = ret'.name
           /\ ret'.name \in DOMAIN country_cache'
           /\ country_cache'[ret'.name] = ret'.val
           /\ ttl'[ret'.name] = now + ttl_seconds
           /\ ret'.calls = << Call("store", ret'.name, "found") >>
           /\ store' = store]_vars

\* C24 witness: a resolution was served by the store at a later clock
\* reading, over the expired cache entry of the name.
C24_Witness ==
    /\ ret.op = "resolve"
    /\ ret.calls = << Call("store", ret.name, "found") >>
    /\ now >= 1
    /\ ttl_seconds >= 1
    /\ hist[ret.name].refresh = now
    /\ ttl[ret.name] = now + ttl_seconds

\* C25: when name misses the cache and the catalog store and the provider
\* returns a record, the record is inserted into the store exactly once (one
\* add, one commit), cached with expiry = now + ttl_seconds, and returned.
C25_ProviderHitWriteBack ==
    [][(/\ ret'.op = "resolve"
        /\ ~CacheFresh(ret'.name, country_cache, ttl, now)
        /\ \A i \in 1..Len(store) : store[i].name # ret'.name
        /\ \E i \in 1..Len(ret'.calls) :
               /\ ret'.calls[i][1] = "provider"
               /\ ret'.calls[i][3] # "absent") =>
           /\ Cardinality({i \in 1..Len(ret'.calls) :
                               ret'.calls[i][1] = "insert"}) = 1
           /\ ret'.err = "none"
           /\ ret'.val # NoRec
           /\ Call("provider", ret'.name, ret'.val.name) \in Range(ret'.calls)
           /\ Call("insert", ret'.name, "ok") \in Range(ret'.calls) =>
                  store' = Append(store, ret'.val)
           /\ ret'.name \in DOMAIN country_cache'
           /\ country_cache'[ret'.name] = ret'.val
           /\ ttl'[ret'.name] = now + ttl_seconds]_vars

\* C26: retrieving all favorite countries returns one resolved record per
\* list entry, in list order: the i-th record's name is the i-th name of the
\* list.
C26_GetAllInListOrder ==
    (ret.op = "get_all" /\ ret.err = "none") =>
        /\ Len(ret.val) = Len(favorites)
        /\ \A i \in 1..Len(favorites) : ret.val[i].name = favorites[i]

\* C27: after clear() has emptied the favorites list, retrieving all
\* favorite countries succeeds and returns an empty sequence. A filled cache
\* under an empty list tells that names had been added before the list was
\* emptied.
C27_GetAllAfterClear ==
    (ret.op = "get_all" /\ favorites = << >> /\ DOMAIN country_cache # {}) =>
        /\ ret.err = "none"
        /\ ret.val = << >>

\* The sum of the population fields of the cached records of the names of
\* favs.
RECURSIVE TotalPopulation(_)
TotalPopulation(favs) ==
    IF favs = << >> THEN 0
    ELSE country_cache[Head(favs)].population + TotalPopulation(Tail(favs))

\* C28: total_population() is available on the favorites list and returns
\* the sum of the population fields of the resolved records of all names in
\* the list; the length-and-population query reports it with length().
C28_TotalPopulation ==
    ret.op = "length_and_population" =>
        /\ ret.err = "none"
        /\ ret.val.favorites_length = Len(favorites)
        /\ ret.val.favorites_population = TotalPopulation(favorites)

\* C29: delete_by_name(name) removes the record with that name, so that a
\* following find_by_name(name) reports it absent; when no record with that
\* name exists it fails with NotFound and leaves the store unchanged.
C29_CatalogDelete ==
    [][ret'.op = "delete_country" =>
           IF \E i \in 1..Len(store) : store[i].name = ret'.name
           THEN /\ ret'.err = "none"
                /\ find_by_name(store', ret'.name) = NoRec
           ELSE /\ ret'.err = "NotFound"
                /\ store' = store]_vars

\* C30: favorites operations issued by different requests against the one
\* FavoritesModel of the application execute one at a time, each running to
\* completion before the next is observed, so that two overlapping
\* add(name) calls for the same name never both append it: no name is held
\* by more than one entry of the list.
C30_OneAtATime ==
    \A name \in Names :
        Cardinality({i \in 1..Len(favorites) : favorites[i] = name}) <= 1

\* C31: the pointer is never adjusted by the list: add, the removals, clear,
\* the moves and every query leave it unchanged; it changes only through a
\* successful set_pointer(pos), so it is always >= 1.
C31_PointerOnlySetBySetPointer ==
    [][/\ favorite_country_int' # favorite_country_int =>
              /\ ret'.op = "set_pointer" /\ ret'.err = "none"
              /\ favorite_country_int' = ret'.pos
       /\ favorite_country_int >= 1
       /\ favorite_country_int' >= 1]_vars

\* C31 witness: a removal has shortened the list below the pointer, which
\* still holds the list number set before.
C31_Witness ==
    /\ ret.op \in {"remove_by_name", "remove_by_position"} /\ ret.err = "none"
    /\ Len(favorites) >= 1
    /\ favorite_country_int > Len(favorites)

\* C32: resolve(name) never returns a cached record whose expiry is <= the
\* current time: an entry is served from the cache only while now < expiry,
\* and at now = expiry exactly, and always when ttl_seconds = 0, it is
\* treated as stale and re-resolved through the store and the provider.
C32_StrictFreshness ==
    [][ret'.op = "resolve" =>
           /\ Call("cache", ret'.name, "hit") \in Range(ret'.calls) <=>
                  (ret'.name \in DOMAIN country_cache /\ now < ttl[ret'.name])
           /\ (ret'.name \in DOMAIN country_cache /\ ttl[ret'.name] <= now) =>
                  /\ ret'.calls[1] \in {Call("store", ret'.name, "found"),
                                         Call("store", ret'.name, "absent")}
                  /\ ret'.err = "none" => ttl'[ret'.name] = now + ttl_seconds
           /\ ttl_seconds = 0 =>
                  Call("cache", ret'.name, "hit") \notin Range(ret'.calls)]_vars

\* C32 witness: a resolution went past the cache entry of the name at the
\* very clock reading of its expiry and failed, so the entry is still there.
C32_Witness ==
    /\ ret.op = "resolve" /\ ret.err = "NotFound"
    /\ ret.name \in DOMAIN country_cache
    /\ ttl[ret.name] = now
    /\ now >= 1 /\ ttl_seconds >= 1

\* C33: a cache hit has no side effects: it changes neither the expiry of
\* the hit entry, nor any other cache entry, nor the catalog store; an entry
\* refreshed at time t expires at t + ttl_seconds however many hits occur
\* in between.
C33_HitHasNoSideEffects ==
    [][/\ (ret'.op = "resolve" /\ Call("cache", ret'.name, "hit") \in Range(ret'.calls)) =>
              /\ ret'.val = country_cache[ret'.name]
              /\ country_cache' = country_cache
              /\ ttl' = ttl
              /\ store' = store
              /\ hist'[ret'.name].refresh = hist[ret'.name].refresh
       /\ \A n \in DOMAIN ttl' : ttl'[n] = hist'[n].refresh + ttl_seconds]_vars

\* C33 witness: an entry was hit at a later clock reading than its refresh
\* and still expires at refresh + ttl_seconds.
C33_Witness ==
    /\ ret.op = "resolve"
    /\ ret.calls = << Call("cache", ret.name, "hit") >>
    /\ hist[ret.name].ok = now
    /\ hist[ret.name].refresh < now
    /\ ttl[ret.name] = hist[ret.name].refresh + ttl_seconds

\* C34: over any sequence of operations the set of cached names only grows,
\* clear and the removals included; the record map and the expiry map have
\* the same key set; a stale entry stays in place with its old expiry until
\* a later successful resolution of the same name overwrites it, and a
\* failed re-resolution leaves it untouched.
C34_LazyExpiry ==
    [][/\ DOMAIN country_cache \subseteq DOMAIN country_cache'
       /\ DOMAIN country_cache = DOMAIN ttl
       /\ DOMAIN country_cache' = DOMAIN ttl'
       /\ \A n \in DOMAIN country_cache :
              \/ CacheEntryKept(n)
              \/ /\ ~CacheFresh(n, country_cache, ttl, now)
                 /\ \/ Call("store", n, "found") \in Range(ret'.calls)
                    \/ Call("insert", n, "ok") \in Range(ret'.calls)
                 /\ ttl'[n] = now + ttl_seconds
       /\ ret'.err # "none" =>
              \A n \in DOMAIN country_cache :
                  (~Resolved(ret'.calls, n)) => CacheEntryKept(n)]_vars

\* C34 witness: the removal of a listed name failed on the re-resolution of
\* its stale cache entry, which is still in place; the list had been
\* cleared or shortened before.
C34_Witness ==
    /\ ret.op = "remove_by_name" /\ ret.err = "NotFound"
    /\ InList(ret.name, favorites)
    /\ Call("provider", ret.name, "absent") \in Range(ret.calls)
    /\ ret.name \in DOMAIN country_cache
    /\ ttl[ret.name] <= now
    /\ Cardinality(DOMAIN country_cache) > Len(favorites)

\* C35: in every state reachable from a fresh model through the public
\* operations, every name of the favorites list is a key of the resolver
\* cache, fresh or stale.
C35_ListedNamesAreCached ==
    \A i \in 1..Len(favorites) :
        /\ favorites[i] \in DOMAIN country_cache
        /\ favorites[i] \in DOMAIN ttl

\* C35 witness: a name has been added whose cache entry is stale as soon as
\* it is written, behind another listed name.
C35_Witness ==
    /\ ret.op = "add" /\ ret.err = "none"
    /\ Len(favorites) >= 2
    /\ ttl[ret.name] <= now
    /\ favorites[Len(favorites)] = ret.name

MoveOps == {"move_to_top", "move_to_bottom", "move_to_position"}

\* C36: successful move_to_top, move_to_bottom and move_to_position calls
\* permute the list: the length and the set of names are unchanged, and so
\* is the relative order of all entries other than the moved name.
C36_MovesPermute ==
    [][(ret'.op \in MoveOps /\ ret'.err = "none") =>
           /\ Len(favorites') = Len(favorites)
           /\ Range(favorites') = Range(favorites)
           /\ InList(ret'.name, favorites')
           /\ Without(favorites', ret'.name) = Without(favorites, ret'.name)]_vars

\* C36 witness: the first name of a list of three has been moved to list
\* number 2, between the two others.
C36_Witness ==
    /\ ret.op = "move_to_position" /\ ret.err = "none"
    /\ ret.pos = 2
    /\ Len(favorites) = Cardinality(Names)
    /\ favorites = << "USA", "Canada", "United States" >>
    /\ ret.name = "Canada"

\* What move_to_position(name, n) does from the current state under one of
\* the environment's answers: error, list written, tiers touched.
MoveToPositionOutcomes(name, n) ==
    {LET v == move_validation(name, favorites, Mem, e)
         err == IF v.err # "none" THEN v.err
                ELSE IF ~is_valid_country_list_number(n, favorites)
                THEN "InvalidPosition" ELSE "none"
     IN  [err |-> err,
          favorites |-> favorites_after_move(favorites, name, n, err),
          calls |-> v.mem.calls] : e \in EnvInputs}

\* The outcome of the step just taken.
StepOutcome == [err |-> ret'.err, favorites |-> favorites', calls |-> ret'.calls]

\* C37: for every list and every name, move_to_top(name) produces the list
\* of move_to_position(name, 1) and move_to_bottom(name) the list of
\* move_to_position(name, length), and the three operations fail in the
\* same cases: empty list, name not in the list, name unresolvable.
C37_MoveToEndsAsMoveToPosition ==
    [][/\ ret'.op = "move_to_top" =>
              StepOutcome \in MoveToPositionOutcomes(ret'.name, 1)
       /\ ret'.op = "move_to_bottom" =>
              StepOutcome \in MoveToPositionOutcomes(ret'.name, Len(favorites))]_vars

\* C37 witness: the first name of a list of three has been moved to the
\* bottom.
C37_Witness ==
    /\ ret.op = "move_to_bottom" /\ ret.err = "none"
    /\ Len(favorites) = Cardinality(Names)
    /\ favorites[Len(favorites)] = ret.name
    /\ favorites[1] = "USA" /\ favorites[2] = "Canada"

\* The store holds no record of name n and the provider, if the call asked
\* it, did not return one.
GoneEverywhere(n, calls) ==
    /\ \A i \in 1..Len(store) : store[i].name # n
    /\ \A i \in 1..Len(calls) : calls[i][1] = "provider" => calls[i][3] = "absent"

\* C38: when the record of name is gone from the catalog store and the
\* provider does not return the name, resolve(name) returns the record only
\* while its cache entry is fresh; every resolve(name) at a time >= (time of
\* the last cache refresh) + ttl_seconds fails with NotFound.
C38_BoundedStaleness ==
    [][(/\ ret'.op = "resolve"
        /\ GoneEverywhere(ret'.name, ret'.calls)) =>
           /\ (/\ hist[ret'.name].refresh >= 0
               /\ now >= hist[ret'.name].refresh + ttl_seconds) =>
                  /\ ret'.err = "NotFound"
                  /\ ret'.val = NoRec
           /\ ret'.err = "none" =>
                  /\ hist[ret'.name].refresh >= 0
                  /\ now < hist[ret'.name].refresh + ttl_seconds
                  /\ ret'.val = country_cache[ret'.name]]_vars

\* C38 witness: a resolution failed after the expiry of the cache entry of
\* a name that is no longer in the store; the stale entry is still cached.
C38_Witness ==
    /\ ret.op = "resolve" /\ ret.err = "NotFound"
    /\ ret.name = "Canada"
    /\ hist[ret.name].refresh >= 0
    /\ ttl_seconds >= 1
    /\ now > hist[ret.name].refresh + ttl_seconds
    /\ ret.name \in DOMAIN country_cache
    /\ \A i \in 1..Len(store) : store[i].name # ret.name

\* C39: every record returned by resolve(name), from the cache, the store
\* or the provider, has a record name equal to the requested name, and a
\* provider answer stored by write-back is found by a store lookup of the
\* same name.
C39_RecordNamedAsRequested ==
    (ret.op = "resolve" /\ ret.err = "none") =>
        /\ ret.val.name = ret.name
        /\ country_cache[ret.name].name = ret.name
        /\ Call("insert", ret.name, "ok") \in Range(ret.calls) =>
               find_by_name(store, ret.name) # NoRec

====
